---- MODULE Spec2Model ----
(***************************************************************************)
(* BitBuffer (src/BitBuffer.cpp, src/BitBuffer.h): a fixed-capacity FIFO   *)
(* that packs values of a declared range into a byte array, bit by bit.    *)
(*                                                                         *)
(* Integer widths are those of the AVR Arduino target the library is       *)
(* written for: byte = 8 bits, unsigned int = 16 bits, unsigned long = 32  *)
(* bits, little-endian.  getMaxRangeValue and getIntegerValue assemble an  *)
(* int from exactly two bytes, so a 16-bit int is what the code assumes.   *)
(***************************************************************************)
EXTENDS Integers, Sequences, FiniteSets, TLC

\* ------------------------------------------------------------------ bounds
\* largest capacity (p_size) a buffer is constructed with
MaxSize == 2

\* most accepted pushes of a fill-then-drain run (two wraps at capacity 2)
MaxPush == 5

\* most pops of a fill-then-drain run beyond the capacity
MaxEmptyPops == 1
FieldSlots == 8
MaxLargePops == 2

\* --------------------------------------------------------------- constants
RANGE2 == 1
RANGE4 == 3
RANGE8 == 7
RANGE16 == 15
RANGE32 == 31
RANGE64 == 63
RANGE128 == 127
RANGE256 == 255
RANGE512 == 2
RANGE1024 == 6
RANGE2048 == 14
RANGE4096 == 30
RANGE8192 == 62
RANGE16384 == 126
RANGE32768 == 254

OVERFLOW_MAX == 1
OVERFLOW_MIN == 2
OVERFLOW_SKIP == 3

\* the fifteen canonical range selectors
Ranges ==
  { RANGE2, RANGE4, RANGE8, RANGE16, RANGE32, RANGE64, RANGE128, RANGE256,
    RANGE512, RANGE1024, RANGE2048, RANGE4096, RANGE8192, RANGE16384,
    RANGE32768 }

\* the selectors in the order of their declaration: the k-th is RANGE(2^k)
RangeOrder ==
  << RANGE2, RANGE4, RANGE8, RANGE16, RANGE32, RANGE64, RANGE128, RANGE256,
     RANGE512, RANGE1024, RANGE2048, RANGE4096, RANGE8192, RANGE16384,
     RANGE32768 >>

OverflowStates == { OVERFLOW_MAX, OVERFLOW_MIN, OVERFLOW_SKIP }

\* number of values of a byte and of an unsigned int (16 bits)
ByteMod == 2^8
UIntMod == 2^16

\* ------------------------------------------------------- bit-level helpers
RECURSIVE BitAndOf(_, _)
\* a & b, bit by bit
BitAndOf(a, b) ==
  IF a = 0 \/ b = 0 THEN 0
  ELSE (a % 2) * (b % 2) + 2 * BitAndOf(a \div 2, b \div 2)

RECURSIVE BitOrOf(_, _)
\* a | b, bit by bit
BitOrOf(a, b) ==
  IF a = 0 THEN b
  ELSE IF b = 0 THEN a
  ELSE (IF a % 2 = 1 \/ b % 2 = 1 THEN 1 ELSE 0)
         + 2 * BitOrOf(a \div 2, b \div 2)

\* the two operators on bytes, tabulated once
ByteAnd == [a \in 0..255 |-> [b \in 0..255 |-> BitAndOf(a, b)]]
ByteOr == [a \in 0..255 |-> [b \in 0..255 |-> BitOrOf(a, b)]]

\* a & b
BitAnd(a, b) == IF a < 256 /\ b < 256 THEN ByteAnd[a][b] ELSE BitAndOf(a, b)

\* a | b
BitOr(a, b) == IF a < 256 /\ b < 256 THEN ByteOr[a][b] ELSE BitOrOf(a, b)

\* (byte)(x << n): the shift is done on the promoted int, the store keeps 8 bits
ShlByte(x, n) == (x * 2^n) % ByteMod

\* (unsigned int)(x << n): 16 bits are kept
ShlUInt(x, n) == (x * 2^n) % UIntMod

\* x >> n on an unsigned operand
Shr(x, n) == x \div 2^n

\* ((byte *)&x)[0] and ((byte *)&x)[1] of a 16-bit little-endian x
LowByte(x) == x % ByteMod
\* mutant of HighByte: the low byte is taken a second time
HighByteIsLow(x) == x % ByteMod

HighByte(x) == (x \div ByteMod) % ByteMod

\* ---------------------------------------------------------- range decoding
\* getMaxRangeValue(byte p_range): p[0], p[1] of a 16-bit unsigned int
getMaxRangeValueOf(p_range) ==
  IF p_range % 2 = 1
    THEN p_range + ByteMod * 0
    ELSE 255 + ByteMod * Shr(p_range, 1)

\* mutant of RoundLog2: the logarithm is truncated instead of rounded
FloorLog2(m) == CHOOSE k \in 0..15 : 2^k <= m /\ m < 2^(k + 1)

\* round(log(m) / M_LN2) for m > 1: the integer k nearest to log2(m), i.e.
\* 2^(k - 1/2) <= m < 2^(k + 1/2), i.e. 2^(2k) <= 2*m*m and m*m/2 < 2^(2k)
RoundLog2(m) ==
  CHOOSE k \in 0..15 : 2^(2 * k) <= 2 * m * m /\ (m * m) \div 2 < 2^(2 * k)

\* getBitSize(), the value it computes and caches in s_bitSize
getBitSizeOf(p_range) ==
  IF getMaxRangeValueOf(p_range) > 1
    THEN RoundLog2(getMaxRangeValueOf(p_range))
    ELSE 1

\* getArraySize()
getArraySizeOf(p_range, p_size) ==
  ((getBitSizeOf(p_range) * p_size) % UIntMod) \div 8 + 1

\* performs a transformation of two byte into an integer
getIntegerValue(highByte, lowByte) == (lowByte + ByteMod * highByte) % UIntMod

\* (x << s) >> t on a 32-bit unsigned long, s <= t < 32: the left shift drops
\* the bits of x from bit 32 - s on, the right shift then drops the low t - s
ShlShrULong(x, s, t) == (x % 2^(32 - s)) \div 2^(t - s)

\* ------------------------------------------------------------ field write
\* mutant of tailMask: the whole last byte is taken for the value
tailMaskWholeByte(overlength) == 255

\* push, lines 220, 261, 312: mask = 0xFF << (8 - overlength), the leading
\* overlength bits of the last byte a value reaches into
tailMask(overlength) == ShlByte(255, 8 - overlength)

\* push, lines 152-325: the bytes of p_data after p_value (already in range)
\* has been written into the p_bitSize bits that start at bit p_bitIndex
pushStore(p_data, p_bitIndex, p_value, p_bitSize, p_maxValue) ==
  LET index == p_bitIndex \div 8
      offset == p_bitIndex % 8
      valueLow == LowByte(p_value)
  IN
  IF p_maxValue <= RANGE256
  THEN
    IF offset + p_bitSize <= 8
    THEN \* value fits into the current byte
      LET shifted == ShlByte(valueLow, 8 - offset - p_bitSize)
          mask == Shr(ShlByte(255, 8 - p_bitSize), offset)
      IN [p_data EXCEPT ![index] = BitOr(BitAnd(@, 255 - mask), shifted)]
    ELSE \* <256 but beyond current byte
      LET overlength == offset + p_bitSize - 8
          v1 == Shr(valueLow, overlength)
          mask1 == Shr(ShlByte(255, 8 - p_bitSize), 8 - p_bitSize + overlength)
          v2 == ShlByte(valueLow, 8 - overlength)
          mask2 == tailMask(overlength)
      IN [p_data EXCEPT ![index] = BitOr(BitAnd(@, 255 - mask1), v1),
                        ![index + 1] = BitOr(BitAnd(@, 255 - mask2), v2)]
  ELSE
    IF offset + p_bitSize <= 16
    THEN \* >255, value fits into current byte and next one
      LET overlength == offset + p_bitSize - 8
          valueIntShifted == ShlUInt(p_value, 8 - overlength)
          v1 == HighByte(valueIntShifted)
          k == (8 - (p_bitSize - 8) - (8 - overlength)) % UIntMod
          mask1 == Shr(ShlByte(255, k), k)
          v2 == LowByte(valueIntShifted)
          mask2 == tailMask(overlength)
      IN [p_data EXCEPT ![index] = BitOr(BitAnd(@, 255 - mask1), v1),
                        ![index + 1] = BitOr(BitAnd(@, 255 - mask2), v2)]
    ELSE \* >255 and value needs more space than the current and next byte
      LET overlength == offset + p_bitSize - 16
          v1 == Shr(p_value, p_bitSize - (8 - offset)) % ByteMod
          mask1 == Shr(ShlByte(255, offset), offset)
          valueIntShifted == ShlUInt(p_value, (8 - offset) + (16 - p_bitSize))
          v2 == HighByte(valueIntShifted)
          v3 == LowByte(valueIntShifted)
          mask3 == tailMask(overlength)
      IN [p_data EXCEPT ![index] = BitOr(BitAnd(@, 255 - mask1), v1),
                        ![index + 1] = v2,
                        ![index + 2] = BitOr(BitAnd(@, 255 - mask3), v3)]

\* ------------------------------------------------------------- field read
\* getValueInternal(p_bitIndex) on the bytes p_data
getValueInternalOf(p_data, p_bitIndex, p_bitSize, p_maxValue) ==
  LET index == p_bitIndex \div 8
      offset == p_bitIndex % 8
  IN
  IF offset + p_bitSize <= 8
  THEN \* value can be retrieved from within the current array value
    LET mask == Shr(ShlByte(255, 8 - p_bitSize), offset)
        v1 == Shr(BitAnd(p_data[index], mask), 8 - offset - p_bitSize)
    IN getIntegerValue(0, v1)
  ELSE IF offset + p_bitSize <= 16
  THEN \* distributed over current and next byte but not more
    LET overlength == offset + p_bitSize - 8
        mask1 == Shr(ShlByte(255, 8 - p_bitSize + overlength), offset)
        valueHigh == BitAnd(p_data[index], mask1)
        mask2 == ShlByte(255, 8 - overlength)
        valueLow == BitAnd(p_data[index + 1], mask2)
    IN IF p_maxValue <= RANGE256
       THEN getIntegerValue(0, BitOr(ShlByte(valueHigh, overlength),
                                     Shr(valueLow, 8 - overlength)))
       ELSE Shr(getIntegerValue(valueHigh, valueLow), 16 - (offset + p_bitSize))
  ELSE \* >255 and spread across 3 bytes
    LET overlength == offset + p_bitSize - 16
        valueLongShifted ==
          p_data[index] * 2^16 + p_data[index + 1] * 2^8 + p_data[index + 2]
    IN ShlShrULong(valueLongShifted, 8 + offset, 8 + offset + (8 - overlength))
         % UIntMod

\* ------------------------------------------------------------------ state
VARIABLES
  \* the fields of a BitBuffer (BitBuffer.h, lines 97-104)
  s_range,      \* value range selector
  s_overflow,   \* overflow behaviour
  s_data,       \* dataset array: byte index -> byte
  s_bitIndex,   \* location index for next write on bit level
  s_popCount,   \* number of values currently retrieved from buffer
  s_size,       \* capacity
  s_bitSize,    \* number of bits per value, cached by getBitSize
  s_full,       \* whether the first overrun of the FIFO happened already
  \* the last API call and what it returned
  call,         \* [name, arg, count]: count is getValueCount() at the call
  ret,          \* push: TRUE/FALSE; pop, getValue: the value; otherwise 0
  \* observers: they record the calls, the code never reads them
  ref,          \* a bounded FIFO queue run on the same calls
  refRet,       \* what that queue answered to the last pop (0 when empty)
  slotPopped,   \* slot -> the element written there has been returned by pop
  stale,        \* the last pop/getValue returned an element pop had returned
  nPush,        \* number of accepted pushes, counted up to capacity + 1
  held,         \* number of values pushed and neither popped nor overwritten
  pushed,       \* fill-then-drain runs: the values of the accepted pushes
  popped,       \* fill-then-drain runs: the results of the pops
  \* the heap block s_data points to
  allocated,    \* the block of malloc has not been given to free
  freedAgain,   \* observer: the last call gave a freed block to free
  usedFreed     \* observer: the last call read or wrote a freed block

bufvars ==
  << s_range, s_overflow, s_data, s_bitIndex, s_popCount, s_size, s_bitSize,
     s_full >>

fifovars == << ref, refRet, slotPopped, stale >>

countvars == << nPush, held >>

logvars == << pushed, popped >>

lifevars == << allocated, freedAgain, usedFreed >>

vars == << bufvars, call, ret, fifovars, countvars, logvars, lifevars >>

\* ------------------------------------------------------- accessors (const)
getMaxRangeValue == getMaxRangeValueOf(s_range)

getBitSize == IF s_bitSize < 1 THEN getBitSizeOf(s_range) ELSE s_bitSize

getSize == s_size

getOverflowState == s_overflow

\* mutant of getValueCount: the popped values are not subtracted
getValueCountWithPopped ==
  (IF s_full THEN s_size ELSE s_bitIndex \div getBitSize) % UIntMod

\* (s_full ? s_size : s_bitIndex / getBitSize()) - s_popCount, as unsigned int
getValueCount ==
  ((IF s_full THEN s_size ELSE s_bitIndex \div getBitSize) - s_popCount)
    % UIntMod

getValueInternal(p_bitIndex) ==
  getValueInternalOf(s_data, p_bitIndex, getBitSize, getMaxRangeValue)

\* mutant of valueBitIndex: the index is counted from the newest value
valueBitIndexFromNewest(p_index) ==
  LET bitDelta == (p_index * getBitSize) % UIntMod
  IN IF bitDelta <= s_bitIndex
       THEN s_bitIndex - bitDelta
       ELSE (((getSize * getBitSize) % UIntMod) - bitDelta) + s_bitIndex

\* getValue, lines 377-384: the bit index of FIFO index p_index
valueBitIndex(p_index) ==
  LET bitDelta == ((getValueCount - p_index + 1) * getBitSize) % UIntMod
  IN IF bitDelta <= s_bitIndex
       THEN s_bitIndex - bitDelta
       ELSE (((getSize * getBitSize) % UIntMod) - bitDelta) + s_bitIndex

\* mutant of invalidIndex: the test for an index below 1 is missing
invalidIndexAboveOnly(p_index) == getValueCount < p_index

\* getValue, line 374: the index is not currently filled in the buffer
invalidIndex(p_index) == getValueCount < p_index \/ p_index < 1

\* getValue(p_index): value at the FIFO index, 0 in case of invalid index
getValue(p_index) ==
  IF invalidIndex(p_index)
    THEN 0
    ELSE getValueInternal(valueBitIndex(p_index))

\* the slot (0 .. s_size - 1) that getValue reads for FIFO index p_index
slotOf(p_index) == valueBitIndex(p_index) \div getBitSize

\* ------------------------------------------------------------ input sets
\* bytes an untouched malloc'ed array may hold
FillBytes == { 0, 255 }

\* values offered to push: in range (0, an alternating bit pattern, the
\* maximum) and one beyond the range
PushValues ==
  { 0, BitAnd(getMaxRangeValue, 43690), getMaxRangeValue,
    getMaxRangeValue + 1 }

\* indices offered to getValue: 0, the valid ones, and one past the capacity
PeekIndices == 0..(s_size + 1)

\* ------------------------------------------------------------------- Init
\* the state the constructor leaves (lines 76-98); malloc does not clear
Init ==
  /\ s_range \in Ranges
  /\ s_size \in 1..MaxSize
  /\ s_overflow = OVERFLOW_SKIP
  /\ s_bitSize = getBitSizeOf(s_range)
  /\ s_bitIndex = 0
  /\ s_popCount = 0
  /\ s_full = FALSE
  /\ \E f \in FillBytes :
       s_data = [i \in 0..(getArraySizeOf(s_range, s_size) - 1) |-> f]
  /\ call = [name |-> "new", arg |-> 0, count |-> 0]
  /\ ret = 0
  /\ ref = << >>
  /\ refRet = 0
  /\ slotPopped = [i \in 0..(s_size - 1) |-> FALSE]
  /\ stale = FALSE
  /\ nPush = 0
  /\ held = 0
  /\ pushed = << >>
  /\ popped = << >>
  /\ allocated = TRUE
  /\ freedAgain = FALSE
  /\ usedFreed = FALSE

\* ---------------------------------------------------------------- actions
\* mutant of pushClamp: the range check compares with >= instead of >
pushClampGE(p_value) ==
  IF p_value >= getMaxRangeValue
    THEN IF s_overflow = OVERFLOW_MAX THEN getMaxRangeValue ELSE 0
    ELSE p_value

\* mutant of pushClamp: OVERFLOW_MAX and OVERFLOW_MIN are swapped
pushClampSwapped(p_value) ==
  IF p_value > getMaxRangeValue
    THEN IF s_overflow = OVERFLOW_MIN THEN getMaxRangeValue ELSE 0
    ELSE p_value

\* the value the range check of push lets through (lines 133-142)
pushClamp(p_value) ==
  IF p_value > getMaxRangeValue
    THEN IF s_overflow = OVERFLOW_MAX THEN getMaxRangeValue ELSE 0
    ELSE p_value

\* mutant of pushRejects: OVERFLOW_MIN skips, OVERFLOW_SKIP stores zero
pushRejectsMin(p_value) ==
  /\ p_value > getMaxRangeValue
  /\ s_overflow = OVERFLOW_MIN

\* push returns false without storing (line 141)
pushRejects(p_value) ==
  /\ p_value > getMaxRangeValue
  /\ s_overflow # OVERFLOW_MAX
  /\ s_overflow # OVERFLOW_MIN

\* mutant of pushWraps: the capacity check compares with >= instead of >
pushWrapsEarly == s_bitIndex + getBitSize >= (getSize * getBitSize) % UIntMod

\* end of capacity reached: the write index goes back to 0 (lines 146-150)
pushWraps == s_bitIndex + getBitSize > (getSize * getBitSize) % UIntMod

\* the bit index push writes at (lines 146-153)
pushBitIndex == IF pushWraps THEN 0 ELSE s_bitIndex

\* mutant of pushNextBitIndex: the reset of the wrap is lost
pushNextBitIndexFromCursor == s_bitIndex + getBitSize

\* mutant of pushNextBitIndex: the index moves on by a whole byte
pushNextBitIndexByByte == pushBitIndex + 8

\* s_bitIndex after an accepted push (line 327)
pushNextBitIndex == pushBitIndex + getBitSize

\* mutant of pushPopCount: a push never takes a popped value back
pushPopCountNever == s_popCount

\* mutant of pushPopCount: the test for s_popCount > 0 is missing
pushPopCountAlways == (s_popCount - 1) % UIntMod

\* mutant of pushPopCount: only a wrapped buffer takes a popped value back
pushPopCountWhenWrapped ==
  IF (s_full \/ pushWraps) /\ s_popCount > 0
    THEN s_popCount - 1
    ELSE s_popCount

\* s_popCount after an accepted push (lines 329-337)
pushPopCount == IF s_popCount > 0 THEN s_popCount - 1 ELSE s_popCount

\* boolean push(unsigned int p_value)
push(p_value) ==
  /\ call' = [name |-> "push", arg |-> p_value, count |-> getValueCount]
  /\ IF pushRejects(p_value)
     THEN /\ ret' = FALSE
          /\ UNCHANGED bufvars
     ELSE /\ s_full' = (s_full \/ pushWraps)
          /\ s_data' = pushStore(s_data, pushBitIndex, pushClamp(p_value),
                                 getBitSize, getMaxRangeValue)
          /\ s_bitIndex' = pushNextBitIndex
          /\ s_popCount' = pushPopCount
          /\ ret' = TRUE
          /\ UNCHANGED << s_range, s_overflow, s_size, s_bitSize >>

\* mutant of popPopCount: the value is counted twice
popPopCountTwice == (s_popCount + 2) % UIntMod

\* mutant of popPopCount: the increment is missing
popPopCountKept == s_popCount

\* s_popCount after a pop that found a value (line 351)
popPopCount == (s_popCount + 1) % UIntMod

\* mutant of popEmpty: an unsigned count is never below 0
popEmptyBelowZero == getValueCount < 0

\* no values left in the buffer (line 346)
popEmpty == getValueCount <= 0

\* mutant of popValue: the value is read after s_popCount++, which makes
\* getValue(1) answer what getValue(2) answers before it
popValueAfterCount == getValue(2)

\* the value pop returns (line 349)
popValue == getValue(1)

\* unsigned int pop()
pop ==
  /\ call' = [name |-> "pop", arg |-> 0, count |-> getValueCount]
  /\ IF popEmpty
     THEN /\ ret' = 0
          /\ UNCHANGED bufvars
     ELSE /\ ret' = popValue
          /\ s_popCount' = popPopCount
          /\ UNCHANGED << s_range, s_overflow, s_data, s_bitIndex, s_size,
                          s_bitSize, s_full >>

\* mutant of peekPopCount: getValue counts the value as retrieved, like pop
peekPopCountInc == (s_popCount + 1) % UIntMod

\* s_popCount after getValue: it is not touched (lines 372-399)
peekPopCount == s_popCount

\* unsigned int getValue(unsigned p_index), called through the API
peek(p_index) ==
  /\ call' = [name |-> "getValue", arg |-> p_index, count |-> getValueCount]
  /\ ret' = getValue(p_index)
  /\ s_popCount' = peekPopCount
  /\ UNCHANGED << s_range, s_overflow, s_data, s_bitIndex, s_size, s_bitSize,
                  s_full >>

\* void setOverflowState(byte p_overflow)
setOverflowState(p_overflow) ==
  /\ s_overflow' = p_overflow
  /\ call' = [name |-> "setOverflowState", arg |-> p_overflow,
              count |-> getValueCount]
  /\ ret' = 0
  /\ UNCHANGED << s_range, s_data, s_bitIndex, s_popCount, s_size, s_bitSize,
                  s_full >>

\* -------------------------------------------------------------- observers
\* what a push of p_value stores under p_overflow according to BitBuffer.h,
\* lines 46-52 (never consulted for a rejected push)
RefStored(p_value, p_overflow) ==
  IF p_value <= getMaxRangeValue THEN p_value
  ELSE IF p_overflow = OVERFLOW_MAX THEN getMaxRangeValue
  ELSE 0

\* the reference queue and the element marks follow the call just made
FifoStep ==
  /\ ref' =
       IF call'.name = "push" /\ ret' = TRUE
         THEN LET v == RefStored(call'.arg, s_overflow)
              IN IF Len(ref) >= s_size
                   THEN Append(Tail(ref), v)
                   ELSE Append(ref, v)
       ELSE IF call'.name = "pop" /\ ref # << >>
         THEN Tail(ref)
       ELSE ref
  /\ refRet' =
       IF call'.name = "pop"
         THEN IF ref = << >> THEN 0 ELSE Head(ref)
         ELSE refRet
  /\ slotPopped' =
       IF call'.name = "push" /\ ret' = TRUE
         THEN [slotPopped EXCEPT ![pushBitIndex \div getBitSize] = FALSE]
       ELSE IF call'.name = "pop" /\ getValueCount > 0
         THEN [slotPopped EXCEPT ![slotOf(1)] = TRUE]
       ELSE slotPopped
  /\ stale' =
       IF call'.name = "pop" /\ getValueCount > 0
         THEN slotPopped[slotOf(1)]
       ELSE IF call'.name = "getValue" /\ ~invalidIndex(call'.arg)
         THEN slotPopped[slotOf(call'.arg)]
       ELSE FALSE

\* the counts of accepted pushes and of held values follow the call just made
CountStep ==
  /\ nPush' =
       IF call'.name = "push" /\ ret' = TRUE /\ nPush <= s_size
         THEN nPush + 1
         ELSE nPush
  /\ held' =
       IF call'.name = "push" /\ ret' = TRUE
         THEN IF held >= s_size THEN held ELSE held + 1
       ELSE IF call'.name = "pop" /\ held > 0
         THEN held - 1
       ELSE held

\* the logs of a fill-then-drain run follow the call just made
LogStep ==
  /\ pushed' =
       IF call'.name = "push" /\ ret' = TRUE
         THEN Append(pushed, call'.arg)
         ELSE pushed
  /\ popped' =
       IF call'.name = "pop" THEN Append(popped, ret') ELSE popped

\* ------------------------------------------------------- the API, any order
Push ==
  (\E v \in PushValues : push(v))
    /\ UNCHANGED << fifovars, countvars, logvars, lifevars >>

Pop == pop /\ UNCHANGED << fifovars, countvars, logvars, lifevars >>

Peek ==
  (\E i \in PeekIndices : peek(i))
    /\ UNCHANGED << fifovars, countvars, logvars, lifevars >>

SetOverflowState ==
  (\E p \in OverflowStates : setOverflowState(p))
    /\ UNCHANGED << fifovars, countvars, logvars, lifevars >>

Next == Push \/ Pop \/ Peek \/ SetOverflowState

Spec == Init /\ [][Next]_vars

\* --------------------------- the API, any order, beside a reference queue
PushFifo ==
  (\E v \in PushValues : push(v))
    /\ FifoStep /\ UNCHANGED << countvars, logvars, lifevars >>

PopFifo == pop /\ FifoStep /\ UNCHANGED << countvars, logvars, lifevars >>

PeekFifo ==
  (\E i \in PeekIndices : peek(i))
    /\ FifoStep /\ UNCHANGED << countvars, logvars, lifevars >>

SetOverflowStateFifo ==
  (\E p \in OverflowStates : setOverflowState(p))
    /\ FifoStep /\ UNCHANGED << countvars, logvars, lifevars >>

NextFifo == PushFifo \/ PopFifo \/ PeekFifo \/ SetOverflowStateFifo

SpecFifo == Init /\ [][NextFifo]_vars

\* -- the API beside a reference queue, without pushes that owe popped values
\* the state of lines 329-330 in which a push takes a popped value back
\* although the buffer has not wrapped and the push does not wrap it
debtPush ==
  /\ ~s_full
  /\ s_popCount > 0
  /\ s_bitIndex < s_size * getBitSize

PushCond ==
  (\E v \in PushValues : push(v) /\ (ret' = TRUE => ~debtPush))
    /\ FifoStep /\ UNCHANGED << countvars, logvars, lifevars >>

\* getValue is left out: it changes no field and the claim reads every index
\* in every state
NextCond == PushCond \/ PopFifo \/ SetOverflowStateFifo

SpecCond == Init /\ [][NextCond]_vars

\* ------- the API, any order, beside the counts of pushes and held values
PushCount ==
  (\E v \in PushValues : push(v))
    /\ CountStep /\ UNCHANGED << fifovars, logvars, lifevars >>

PopCount == pop /\ CountStep /\ UNCHANGED << fifovars, logvars, lifevars >>

PeekCount ==
  (\E i \in PeekIndices : peek(i))
    /\ CountStep /\ UNCHANGED << fifovars, logvars, lifevars >>

SetOverflowStateCount ==
  (\E p \in OverflowStates : setOverflowState(p))
    /\ CountStep /\ UNCHANGED << fifovars, logvars, lifevars >>

NextCount == PushCount \/ PopCount \/ PeekCount \/ SetOverflowStateCount

SpecCount == Init /\ [][NextCount]_vars

\* ------------- fill then drain: pushes on a fresh buffer, then only pops
PushFill ==
  /\ popped = << >>
  /\ Len(pushed) < MaxPush
  /\ \E v \in PushValues : push(v)
  /\ LogStep
  /\ UNCHANGED << fifovars, countvars, lifevars >>

PopFill ==
  /\ Len(popped) < s_size + MaxEmptyPops
  /\ pop
  /\ LogStep
  /\ UNCHANGED << fifovars, countvars, lifevars >>

NextFill == PushFill \/ PopFill

SpecFill == Init /\ [][NextFill]_vars

\* ------- one push at every slot of a buffer, over every previous content
\* what malloc or earlier pushes left in every byte of the array
FieldFills == {0, 85, 170, 255}

\* every value push accepts unchanged
FieldValues == 0..getMaxRangeValue

\* a buffer of FieldSlots slots after 0..FieldSlots accepted pushes
InitField ==
  /\ s_range \in Ranges
  /\ s_size = FieldSlots
  /\ s_overflow = OVERFLOW_SKIP
  /\ s_bitSize = getBitSizeOf(s_range)
  /\ \E s \in 0..s_size : s_bitIndex = s * s_bitSize
  /\ s_popCount = 0
  /\ s_full = FALSE
  /\ \E f \in FieldFills :
       s_data = [i \in 0..(getArraySizeOf(s_range, s_size) - 1) |-> f]
  /\ call = [name |-> "new", arg |-> 0, count |-> 0]
  /\ ret = 0
  /\ ref = << >>
  /\ refRet = 0
  /\ slotPopped = [i \in 0..(s_size - 1) |-> FALSE]
  /\ stale = FALSE
  /\ nPush = 0
  /\ held = 0
  /\ pushed = << >>
  /\ popped = << >>
  /\ allocated = TRUE
  /\ freedAgain = FALSE
  /\ usedFreed = FALSE

PushField ==
  /\ call.name = "new"
  /\ \E v \in FieldValues : push(v)
  /\ UNCHANGED << fifovars, countvars, logvars, lifevars >>

NextField == PushField

SpecField == InitField /\ [][NextField]_vars

\* --- one push at every slot, over every previous content, sampled values
\* every low byte under four high bytes: none, all, and two alternating
\* patterns of the bits the range has above bit 7; every value of a range
\* of at most 8 bits
SlotValues ==
  LET top == getMaxRangeValue \div ByteMod
  IN { h * ByteMod + l :
         h \in {0, BitAnd(top, 85), BitAnd(top, 170), top},
         l \in 0..(IF top = 0 THEN getMaxRangeValue ELSE 255) }

PushSlot ==
  /\ call.name = "new"
  /\ \E v \in SlotValues : push(v)
  /\ UNCHANGED << fifovars, countvars, logvars, lifevars >>

NextSlot == PushSlot

SpecSlot == InitField /\ [][NextSlot]_vars

\* --------- a capacity whose bit count does not fit an unsigned int (16 bits)
\* the smallest capacity of a 15-bit buffer with capacity * 15 >= 2^16
LargeSize == UIntMod \div getBitSizeOf(RANGE32768) + 1

\* (int) x for an unsigned long x, int being 16 bits wide: the low 16 bits in
\* two's complement; a negative x stands for the unsigned long 2^32 + x
IntOf(x) ==
  LET low == x % UIntMod
  IN IF low >= 2^15 THEN low - UIntMod ELSE low

\* a / b of C for b > 0: the quotient is truncated toward zero
DivTrunc(a, b) == IF a >= 0 THEN a \div b ELSE 0 - ((0 - a) \div b)

\* getValueInternal, line 646: the first byte index read for p_bitIndex
readIndex(p_bitIndex) == DivTrunc(IntOf(p_bitIndex), 8)

\* getValueInternal: the last byte index read for p_bitIndex
readLast(p_bitIndex) ==
  LET offset == p_bitIndex % 8
  IN IF offset + getBitSize <= 8 THEN readIndex(p_bitIndex)
     ELSE IF offset + getBitSize <= 16 THEN readIndex(p_bitIndex) + 1
     ELSE readIndex(p_bitIndex) + 2

\* the bytes getValueInternal reads for p_bitIndex are bytes of the array
readInside(p_bitIndex) ==
  /\ readIndex(p_bitIndex) \in DOMAIN s_data
  /\ readLast(p_bitIndex) \in DOMAIN s_data

\* what a read outside the array may yield: any value of the range, sampled
UndefinedValues == { 0, getMaxRangeValue }

\* the values getValue(p_index) may return, a read outside the array included
getValueResults(p_index) ==
  IF invalidIndex(p_index) THEN { 0 }
  ELSE LET bitIndex == valueBitIndex(p_index)
       IN IF readInside(bitIndex)
            THEN { getValueInternal(8 * readIndex(bitIndex) + (bitIndex % 8)) }
            ELSE UndefinedValues

\* indices offered to getValue on the large buffer
LargeIndices ==
  { i \in { 0, 1, 2, getValueCount - 1, getValueCount, getValueCount + 1 } :
      i >= 0 }

InitLarge ==
  /\ s_range = RANGE32768
  /\ s_size = LargeSize
  /\ s_overflow = OVERFLOW_SKIP
  /\ s_bitSize = getBitSizeOf(s_range)
  /\ s_bitIndex = 0
  /\ s_popCount = 0
  /\ s_full = FALSE
  /\ \E f \in FillBytes :
       s_data = [i \in 0..(getArraySizeOf(s_range, s_size) - 1) |-> f]
  /\ call = [name |-> "new", arg |-> 0, count |-> 0]
  /\ ret = 0
  /\ ref = << >>
  /\ refRet = 0
  /\ slotPopped = << >>
  /\ stale = FALSE
  /\ nPush = 0
  /\ held = 0
  /\ pushed = << >>
  /\ popped = << >>
  /\ allocated = TRUE
  /\ freedAgain = FALSE
  /\ usedFreed = FALSE

PushLarge ==
  (\E v \in PushValues : push(v))
    /\ UNCHANGED << fifovars, countvars, logvars, lifevars >>

\* pop, its read of getValue(1) possibly outside the array
PopLarge ==
  /\ s_popCount < MaxLargePops
  /\ call' = [name |-> "pop", arg |-> 0, count |-> getValueCount]
  /\ IF popEmpty
     THEN /\ ret' = 0
          /\ UNCHANGED bufvars
     ELSE /\ ret' \in getValueResults(1)
          /\ s_popCount' = popPopCount
          /\ UNCHANGED << s_range, s_overflow, s_data, s_bitIndex, s_size,
                          s_bitSize, s_full >>
  /\ UNCHANGED << fifovars, countvars, logvars, lifevars >>

\* getValue, its read possibly outside the array
PeekLarge ==
  /\ \E i \in LargeIndices :
       /\ call' = [name |-> "getValue", arg |-> i, count |-> getValueCount]
       /\ ret' \in getValueResults(i)
  /\ UNCHANGED << bufvars, fifovars, countvars, logvars, lifevars >>

SetOverflowStateLarge ==
  (\E p \in OverflowStates : setOverflowState(p))
    /\ UNCHANGED << fifovars, countvars, logvars, lifevars >>

NextLarge == PushLarge \/ PopLarge \/ PeekLarge \/ SetOverflowStateLarge

SpecLarge == InitLarge /\ [][NextLarge]_vars

\* the field of getBitSize bits at bit p_offset is a slot of the buffer and
\* lies in the allocated array
fieldInStorage(p_offset) ==
  /\ p_offset % getBitSize = 0
  /\ 0 <= p_offset
  /\ p_offset <= (s_size - 1) * getBitSize
  /\ p_offset + getBitSize <= s_size * getBitSize
  /\ (p_offset + getBitSize - 1) \div 8 < getArraySizeOf(s_range, s_size)

\* ----------------------------- the API with flush, beside the heap block
\* void flush(): free(s_data), nothing else (lines 103-105)
flush ==
  /\ call' = [name |-> "flush", arg |-> 0, count |-> getValueCount]
  /\ ret' = 0
  /\ allocated' = FALSE
  /\ freedAgain' = ~allocated
  /\ usedFreed' = FALSE
  /\ UNCHANGED bufvars

\* the block a call of p_name reads or writes is a freed one
usesFreed(p_name, p_accepted, p_count, p_index) ==
  /\ ~allocated
  /\ \/ p_name = "push" /\ p_accepted
     \/ p_name = "pop" /\ p_count > 0
     \/ p_name = "getValue" /\ p_index >= 1 /\ p_index <= p_count

\* the heap observers follow the call just made
LifeStep ==
  /\ allocated' = allocated
  /\ freedAgain' = FALSE
  /\ usedFreed' =
       usesFreed(call'.name, ret' = TRUE, getValueCount, call'.arg)

PushLife ==
  (\E v \in PushValues : push(v))
    /\ LifeStep /\ UNCHANGED << fifovars, countvars, logvars >>

PopLife == pop /\ LifeStep /\ UNCHANGED << fifovars, countvars, logvars >>

PeekLife ==
  (\E i \in PeekIndices : peek(i))
    /\ LifeStep /\ UNCHANGED << fifovars, countvars, logvars >>

SetOverflowStateLife ==
  (\E p \in OverflowStates : setOverflowState(p))
    /\ LifeStep /\ UNCHANGED << fifovars, countvars, logvars >>

FlushLife == flush /\ UNCHANGED << fifovars, countvars, logvars >>

\* the allocator or a later owner rewrites the bytes of the freed block
HeapReuse ==
  /\ ~allocated
  /\ \E f \in FillBytes :
       /\ s_data' = [i \in DOMAIN s_data |-> f]
       /\ s_data' # s_data
  /\ UNCHANGED << s_range, s_overflow, s_bitIndex, s_popCount, s_size,
                  s_bitSize, s_full, call, ret, fifovars, countvars,
                  logvars, lifevars >>

NextLife ==
  \/ PushLife
  \/ PopLife
  \/ PeekLife
  \/ SetOverflowStateLife
  \/ FlushLife
  \/ HeapReuse

SpecLife == Init /\ [][NextLife]_vars

\* getValueCount, line 129: the minuend s_full ? s_size : s_bitIndex / bitSize
valueCountBase == IF s_full THEN s_size ELSE s_bitIndex \div getBitSize

\* bit number p_bit of the array p_data, bit 0 being the top bit of byte 0
BitOf(p_data, p_bit) == (p_data[p_bit \div 8] \div 2^(7 - (p_bit % 8))) % 2

\* ======================================================================
\* Claims
\* ======================================================================

\* C1 (SpecFill): on a fresh buffer, after k <= capacity accepted pushes
\* v1..vk and no pop in between, the pops made so far (at most k of them)
\* returned v1, v2, ... in that order, for every range selector.
C1_FifoOrder ==
  (Len(pushed) <= s_size /\ Len(popped) <= Len(pushed))
    => popped = SubSeq(pushed, 1, Len(popped))

\* C1 witness: capacity 2 filled with two different 15-bit values, both popped
C1_Witness ==
  /\ s_range = RANGE32768
  /\ s_size = 2
  /\ Len(pushed) = 2
  /\ pushed[1] # pushed[2]
  /\ Len(popped) = 2

\* C2 (SpecFill): after n > capacity accepted pushes and no pop, the live
\* count is the capacity and getValue(i), i = 1..capacity, is the
\* (n - capacity + i)-th pushed value.
C2_Overwrite ==
  (popped = << >> /\ Len(pushed) > s_size)
    => /\ getValueCount = s_size
       /\ \A i \in 1..s_size :
            getValue(i) = pushed[Len(pushed) - s_size + i]

\* C2 witness: capacity 2 after five pushes (the cursor wrapped twice), the
\* two live values differ
C2_Witness ==
  /\ s_size = 2
  /\ popped = << >>
  /\ Len(pushed) = 2 * s_size + 1
  /\ pushed[4] # pushed[5]
  /\ call.name = "push"

\* C3 (SpecFill): after n > capacity accepted pushes and no pop, the j-th
\* pop returns the (n - capacity + j)-th pushed value for j <= capacity and
\* 0 afterwards, and the live count is 0 once capacity pops were made.
C3_PopAfterOverwrite ==
  Len(pushed) > s_size
    => /\ \A j \in 1..Len(popped) :
            popped[j] = IF j <= s_size
                          THEN pushed[Len(pushed) - s_size + j]
                          ELSE 0
       /\ (Len(popped) >= s_size => getValueCount = 0)

\* C3 witness: capacity 2, three pushes, then three pops: two values, then 0
C3_Witness ==
  /\ s_size = 2
  /\ Len(pushed) = 3
  /\ Len(popped) = 3
  /\ popped[1] # popped[2]
  /\ popped[2] # 0

\* C4 (SpecFifo): after any sequence of push and pop calls the live count
\* and getValue(1..count) are the length and contents of the reference
\* bounded FIFO queue run on the same calls, and every pop returns what the
\* reference queue returns.
C4_FifoRefinement ==
  /\ getValueCount = Len(ref)
  /\ \A i \in 1..Len(ref) : getValue(i) = ref[i]
  /\ (call.name = "pop" => ret = refRet)

\* C5 (SpecFifo): an element that pop has returned is never returned again,
\* neither by a later pop nor by getValue at any index.
C5_PopRemoves == ~stale

\* the newest live value, getValue(getValueCount())
newestValue == getValue(getValueCount)

\* C6 (Spec): push(v) with v <= maxValue returns true under every overflow
\* policy, full buffer or not, and right after it the live count is at
\* least 1 and the newest live value is v.
C6_InRangePush ==
  (call.name = "push" /\ call.arg <= getMaxRangeValue)
    => /\ ret = TRUE
       /\ getValueCount >= 1
       /\ newestValue = call.arg

\* C6 witness: a non-zero value pushed into a full buffer of capacity 2
\* while the policy is OVERFLOW_MIN
C6_Witness ==
  /\ call.name = "push"
  /\ call.arg <= getMaxRangeValue
  /\ call.arg > 1
  /\ call.count = s_size
  /\ s_size = 2
  /\ s_overflow = OVERFLOW_MIN

\* C7 (Spec): push(v) with v > maxValue under OVERFLOW_SKIP returns false
\* and changes no field, no storage byte, neither the live count nor any
\* getValue result.
C7_SkipRejects ==
  [][ (call'.name = "push" /\ call'.arg > getMaxRangeValue
         /\ s_overflow = OVERFLOW_SKIP)
        => /\ ret' = FALSE
           /\ UNCHANGED bufvars
           /\ getValueCount' = getValueCount
           /\ \A i \in PeekIndices : getValue(i)' = getValue(i) ]_vars

\* C7 witness: a rejected push on a wrapped buffer with a popped value
C7_Witness ==
  /\ call.name = "push"
  /\ ret = FALSE
  /\ s_full
  /\ s_popCount > 0
  /\ getValueCount > 0

\* C8 (Spec): push(v) with v > maxValue returns true and leaves maxValue
\* (OVERFLOW_MAX) or 0 (OVERFLOW_MIN) as the newest live value; storage,
\* cursor and counters change as for a push of that clamped value.
C8_Clamping ==
  [][ (call'.name = "push" /\ call'.arg > getMaxRangeValue
         /\ s_overflow \in { OVERFLOW_MAX, OVERFLOW_MIN })
        => LET c == IF s_overflow = OVERFLOW_MAX THEN getMaxRangeValue ELSE 0
           IN /\ ret' = TRUE
              /\ newestValue' = c
              /\ s_data' = pushStore(s_data, pushBitIndex, c, getBitSize,
                                     getMaxRangeValue)
              /\ s_bitIndex' = pushBitIndex + getBitSize
              /\ s_popCount' = pushPopCount
              /\ s_full' = (s_full \/ pushWraps)
              /\ UNCHANGED << s_range, s_overflow, s_size, s_bitSize >> ]_vars

\* C8 witness: an out-of-range push clamped to the maximum on a full buffer
C8_Witness ==
  /\ call.name = "push"
  /\ call.arg > getMaxRangeValue
  /\ ret = TRUE
  /\ s_overflow = OVERFLOW_MAX
  /\ newestValue = getMaxRangeValue
  /\ call.count = s_size

\* C9 (Spec): getValue(i) changes no field and no storage byte for any
\* index, the live count stays, and the same call made again right away
\* returns the same value.
C9_PeekFrame ==
  [][ call'.name = "getValue"
        => /\ UNCHANGED bufvars
           /\ getValueCount' = getValueCount
           /\ \A i \in PeekIndices :
                call'.arg = i => (ret' = getValue(i) /\ getValue(i)' = ret') ]_vars

\* C9 witness: a valid getValue on a wrapped buffer with a popped value that
\* returned a non-zero value
C9_Witness ==
  /\ call.name = "getValue"
  /\ call.arg >= 1
  /\ call.arg <= getValueCount
  /\ ret > 0
  /\ s_full
  /\ s_popCount > 0

\* C10 (Spec): pop in a state with live count 0 returns 0 and changes no
\* field and no storage byte; s_popCount is not incremented and the live
\* count stays 0.
C10_EmptyPop ==
  [][ (call'.name = "pop" /\ getValueCount = 0)
        => /\ ret' = 0
           /\ UNCHANGED bufvars
           /\ getValueCount' = 0 ]_vars

\* C10 witness: pop on a wrapped buffer of capacity 2 whose values were all
\* popped before the call
C10_Witness ==
  /\ call.name = "pop"
  /\ call.count = 0
  /\ s_full
  /\ s_size = 2
  /\ s_popCount = s_size

\* C11 (Spec): getValue(i) with i = 0 or i greater than the live count
\* returns 0, whatever the storage bytes hold, and changes no field and no
\* storage byte.
C11_InvalidIndex ==
  [][ (call'.name = "getValue"
         /\ (call'.arg = 0 \/ call'.arg > getValueCount))
        => /\ ret' = 0
           /\ UNCHANGED bufvars ]_vars

\* C11 witness: getValue(0) and getValue(count + 1) on a buffer that holds
\* values and whose bytes are all non-zero answered 0
C11_Witness ==
  /\ call.name = "getValue"
  /\ (call.arg = 0 \/ call.arg = getValueCount + 1)
  /\ getValueCount > 0
  /\ \A i \in DOMAIN s_data : s_data[i] > 0
  /\ ret = 0

\* C12 (SpecField): for every range, every slot of the buffer (hence every
\* byte alignment and the spans of one, two and three bytes), every value
\* below 2^bitWidth and every previous content of the array, the value read
\* by getValueInternal at the bit offset an accepted push wrote at is the
\* value pushed.
C12_FieldRoundTrip ==
  call.name = "push"
    => /\ ret = TRUE
       /\ getValueInternal(s_bitIndex - getBitSize) = call.arg

\* C12 witness: an 11-bit value written at bit 55 of an array of 0xFF bytes,
\* a field spread over three bytes
C12_Witness ==
  /\ call.name = "push"
  /\ getBitSize = 11
  /\ s_bitIndex - getBitSize = 55
  /\ call.arg = 1365
  /\ s_data[0] = 255
  /\ getValueInternal(55) = 1365

\* C13 as stated (Spec): in every reachable state
\* 0 <= s_popCount <= getValueCount() <= capacity. Refuted: after push, pop
\* on a fresh buffer s_popCount is 1 and getValueCount() is 0.
C13_PoppedBelowLive ==
  /\ 0 <= s_popCount
  /\ s_popCount <= getValueCount
  /\ getValueCount <= s_size

\* C13 amended (Spec): in every reachable state s_popCount and
\* getValueCount() are both within 0..capacity and their sum is at most the
\* capacity; s_popCount may exceed getValueCount().
C13_CountBounds ==
  /\ 0 <= s_popCount
  /\ 0 <= getValueCount
  /\ s_popCount + getValueCount <= s_size

\* C13 witness: a wrapped buffer of capacity 2 after two pops: s_popCount is
\* 2 and the live count is 0
C13_Witness ==
  /\ s_full
  /\ s_size = 2
  /\ s_popCount = 2
  /\ getValueCount = 0
  /\ call.name = "pop"

\* C14 as stated (Spec): in every reachable state s_bitIndex lies in
\* [0, capacity * bitWidth), strictly below capacity * bitWidth. Refuted:
\* the push that fills the last slot leaves s_bitIndex = capacity * bitWidth.
C14_WriteIndexBelowEnd ==
  /\ 0 <= s_bitIndex
  /\ s_bitIndex < s_size * getBitSize

\* C14 amended (Spec): in every reachable state s_bitIndex lies in
\* [0, capacity * bitWidth], the upper end included, and right after an
\* accepted push it lies in [bitWidth, capacity * bitWidth].
C14_WriteIndexRange ==
  /\ 0 <= s_bitIndex
  /\ s_bitIndex <= s_size * getBitSize
  /\ (call.name = "push" /\ ret = TRUE) => s_bitIndex >= getBitSize

\* C14 witness: the second accepted push on a buffer of capacity 2 left the
\* write index at the end of the storage
C14_Witness ==
  /\ call.name = "push"
  /\ ret = TRUE
  /\ s_size = 2
  /\ ~s_full
  /\ s_bitIndex = s_size * getBitSize

\* C15 (Spec): in every reachable state s_bitIndex is a multiple of the bit
\* width, and the slot an accepted push wrote starts at s * bitWidth for a
\* slot number s with 0 <= s < capacity.
C15_SlotAligned ==
  /\ s_bitIndex % getBitSize = 0
  /\ (call.name = "push" /\ ret = TRUE)
       => LET written == s_bitIndex - getBitSize
          IN /\ written % getBitSize = 0
             /\ 0 <= written \div getBitSize
             /\ written \div getBitSize < s_size

\* C15 witness: an accepted push of a 3-bit value wrote slot 1, which starts
\* inside byte 0, of a wrapped buffer
C15_Witness ==
  /\ call.name = "push"
  /\ ret = TRUE
  /\ getBitSize = 3
  /\ s_full
  /\ s_bitIndex = 6

\* C16 (Spec): for the k-th of the 15 range selectors, RANGE(2^k),
\* getMaxRangeValue() is 2^k - 1 and getBitSize() is exactly k; an odd
\* selector is its own maximum, an even selector stands for
\* (selector >> 1) * 256 + 255.
C16_RangeDecoding ==
  \A k \in 1..15 :
    s_range = RangeOrder[k]
      => /\ getMaxRangeValue = 2^k - 1
         /\ getBitSize = k
         /\ getBitSizeOf(s_range) = k
         /\ s_range % 2 = 1 => getMaxRangeValue = s_range
         /\ s_range % 2 = 0
              => getMaxRangeValue = (s_range \div 2) * 256 + 255

\* C16 witness: a buffer constructed with the even selector RANGE512, whose
\* maximum is 511 and whose bit size is 9, accepted 511 and moved the write
\* index on by 9 bits
C16_Witness ==
  /\ s_range = RANGE512
  /\ getMaxRangeValue = 511
  /\ getBitSize = 9
  /\ s_bitSize = 9
  /\ call.name = "push"
  /\ call.arg = 511
  /\ ret = TRUE
  /\ s_bitIndex = 9

\* C17 (SpecCount): every accepted push lowers s_popCount by exactly 1 when
\* it is above 0 and leaves it at 0 otherwise, wrapped or not; so an
\* accepted push that does not wrap, on a buffer that has not wrapped and
\* has s_popCount > 0, raises getValueCount() by 2, and the excess of
\* getValueCount() over the number of values pushed and neither popped nor
\* overwritten grows by one.
C17_PushTakesBackPop ==
  [][ (call'.name = "push" /\ ret' = TRUE)
        => /\ s_popCount' = IF s_popCount > 0 THEN s_popCount - 1 ELSE 0
           /\ (~s_full /\ ~s_full' /\ s_popCount > 0)
                => /\ getValueCount' = getValueCount + 2
                   /\ getValueCount' - held'
                        = (getValueCount - held) + 1 ]_vars

\* C17 witness: an accepted push on an unwrapped buffer that had a popped
\* value left the live count 2 above the count at the call and above the
\* number of values held
C17_Witness ==
  /\ call.name = "push"
  /\ ret = TRUE
  /\ ~s_full
  /\ s_popCount = 0
  /\ getValueCount = call.count + 2
  /\ getValueCount > held

\* C18 (SpecCount): s_full is false up to the capacity-th accepted push and
\* true from the (capacity + 1)-th on; the push that sets it writes its
\* value at bit 0 and leaves s_bitIndex = bitWidth; s_full never goes back
\* to false, and a rejected push, a pop or a getValue never changes it.
C18_WrapFlag ==
  [][ /\ s_full <=> nPush > s_size
      /\ s_full' <=> nPush' > s_size
      /\ s_full => s_full'
      /\ s_full' # s_full
           => /\ call'.name = "push"
              /\ ret' = TRUE
              /\ nPush = s_size
              /\ nPush' = s_size + 1
              /\ s_bitIndex = s_size * getBitSize
              /\ s_bitIndex' = getBitSize
              /\ getValueInternal(0)' = RefStored(call'.arg, s_overflow)
      /\ (call'.name # "push" \/ ret' = FALSE) => s_full' = s_full ]_vars

\* C18 witness: the third accepted push on a buffer of capacity 2 that holds
\* two values wrote slot 0, left the write index at slot 1 and set s_full
C18_Witness ==
  /\ call.name = "push"
  /\ ret = TRUE
  /\ s_size = 2
  /\ nPush = 3
  /\ s_full
  /\ s_bitIndex = getBitSize
  /\ s_popCount = 0
  /\ held = 2

\* C19 (Spec): a pop in a state with live count above 0 returns what
\* getValue(1) returns before the call, raises s_popCount by exactly 1 and
\* leaves s_bitIndex, s_full, the overflow policy and every storage byte
\* unchanged.
C19_PopLogical ==
  [][ (call'.name = "pop" /\ getValueCount > 0)
        => /\ ret' = getValue(1)
           /\ s_popCount' = s_popCount + 1
           /\ UNCHANGED << s_range, s_overflow, s_data, s_bitIndex, s_size,
                           s_bitSize, s_full >> ]_vars

\* C19 witness: the second pop on a wrapped buffer of capacity 2 returned a
\* non-zero value and the bytes still hold non-zero content
C19_Witness ==
  /\ call.name = "pop"
  /\ call.count = 1
  /\ ret > 0
  /\ s_full
  /\ s_size = 2
  /\ s_popCount = 2
  /\ \E i \in DOMAIN s_data : s_data[i] > 0

\* C20 (SpecSlot): an accepted push changes only the bits of the slot it
\* writes: every bit of the array outside [slot, slot + bitWidth) is the same
\* before and after (the bytes the slot does not reach, the bits before the
\* slot in its first byte and the bits after it in its last byte), and
\* getValueInternal at every other slot offset returns what it returned
\* before, also for the slots that share a byte with the written one and for
\* a field spread over three bytes.
C20_PushWritesOneSlot ==
  [][ (call'.name = "push" /\ ret' = TRUE)
        => LET written == s_bitIndex' - getBitSize
               first == written \div 8
               last == (written + getBitSize - 1) \div 8
               before == written % 8
               after == 7 - ((written + getBitSize - 1) % 8)
           IN /\ \A i \in DOMAIN s_data :
                   (i < first \/ i > last) => s_data'[i] = s_data[i]
              /\ s_data'[first] \div 2^(8 - before)
                   = s_data[first] \div 2^(8 - before)
              /\ s_data'[last] % 2^after = s_data[last] % 2^after
              /\ \A t \in 0..(s_size - 1) :
                   t * getBitSize # written
                     => getValueInternal(t * getBitSize)'
                          = getValueInternal(t * getBitSize) ]_vars

\* C20 witness: an 11-bit value written at bit 55, over three bytes of an
\* array of 0xFF bytes, left the bits before and after the slot set and the
\* neighbour slots 4 and 6 at 2047
C20_Witness ==
  /\ call.name = "push"
  /\ ret = TRUE
  /\ call.arg = 0
  /\ getBitSize = 11
  /\ s_bitIndex = 66
  /\ getValueInternal(55) = 0
  /\ BitOf(s_data, 54) = 1
  /\ BitOf(s_data, 66) = 1
  /\ getValueInternal(44) = 2047
  /\ getValueInternal(66) = 2047

\* C21 (SpecLarge): in every reachable state the field an accepted push
\* wrote and the field getValue reads for every valid index start at a
\* multiple of the bit width in [0, (capacity - 1) * bitWidth], lie inside
\* bits [0, capacity * bitWidth) and touch only byte indices below the
\* allocated length floor(bitWidth * capacity / 8) + 1. Refuted for a
\* capacity with capacity * bitWidth >= 2^16.
C21_StorageBounds ==
  /\ (call.name = "push" /\ ret = TRUE)
       => fieldInStorage(s_bitIndex - getBitSize)
  /\ \A i \in 1..getValueCount : fieldInStorage(valueBitIndex(i))

\* C22 (SpecLife): over any sequence of API calls on one buffer, repeated
\* flush calls and push, pop, getValue after flush included, the storage is
\* never given to free a second time and never read or written after it has
\* been freed. Refuted: flush only calls free(s_data).
C22_StorageLifetime ==
  /\ ~freedAgain
  /\ ~usedFreed

\* C23 (Spec): a pop in a state with live count c > 0 leaves the live count
\* at exactly c - 1, and for every i in 1..c-1 getValue(i) after the pop is
\* getValue(i + 1) before the pop.
C23_PopShifts ==
  [][ (call'.name = "pop" /\ getValueCount > 0)
        => /\ getValueCount' = getValueCount - 1
           /\ \A i \in 1..(getValueCount - 1) :
                getValue(i)' = getValue(i + 1) ]_vars

\* C23 witness: a pop at live count 2 on a wrapped buffer returned one value
\* and left the other, a different non-zero value, at index 1
C23_Witness ==
  /\ call.name = "pop"
  /\ call.count = 2
  /\ s_full
  /\ getValueCount = 1
  /\ getValue(1) > 0
  /\ getValue(1) # ret

\* C24 (Spec): in every reachable state s_popCount is at most
\* (s_full ? capacity : s_bitIndex / bitWidth), so the unsigned subtraction
\* of getValueCount() does not wrap around, and 0 <= getValueCount() <=
\* capacity.
C24_NoUnderflow ==
  /\ s_popCount <= valueCountBase
  /\ getValueCount = valueCountBase - s_popCount
  /\ 0 <= getValueCount
  /\ getValueCount <= s_size

\* C24 witness: on an unwrapped buffer of capacity 2 with one value pushed
\* and popped, a further pop found the count 0 and left s_popCount at 1
C24_Witness ==
  /\ call.name = "pop"
  /\ call.count = 0
  /\ ~s_full
  /\ s_size = 2
  /\ s_bitIndex = getBitSize
  /\ s_popCount = 1
  /\ valueCountBase = 1

\* C25 (SpecCond): in every run in which no accepted push is executed in a
\* state with s_full false, s_popCount > 0 and s_bitIndex below
\* capacity * bitWidth, at every step getValueCount() is the length of the
\* reference bounded FIFO queue (drop oldest when full) run on the same
\* calls, getValue(i) is its i-th element for every i up to the count, and a
\* pop has returned what the reference queue returned.
C25_CondRefinement ==
  /\ Len(ref) = getValueCount
  /\ \A i \in 1..getValueCount : ref[i] = getValue(i)
  /\ (call.name = "pop" => refRet = ret)

\* C25 witness: on a buffer of capacity 2, after a pop that returned a
\* non-zero value, a push accepted at live count 1 wrote slot 0 of the
\* wrapped buffer, and the two values held differ
C25_Witness ==
  /\ call.name = "push"
  /\ ret = TRUE
  /\ call.count = 1
  /\ s_size = 2
  /\ s_full
  /\ s_bitIndex = getBitSize
  /\ refRet > 0
  /\ Len(ref) = 2
  /\ ref[1] # ref[2]
  /\ getValue(1) = ref[1]
  /\ getValue(2) = ref[2]

====
